---- MODULE Spec2Model ----
(***************************************************************************)
(* InDom (src/src/indom.ts): single-instance handles over DOM elements,    *)
(* the identity registry (#map), the MutationObserver based watcher with   *)
(* its deferred (microtask) check, the destruction protocol (#destroy)     *)
(* and the ready gate (init / onReady).                                    *)
(*                                                                         *)
(* JavaScript is single threaded: a call that is in progress is a frame of *)
(* `stack`, and only the topmost frame takes steps.  User code (page       *)
(* scripts, promise callbacks, other libraries) runs only when the stack   *)
(* is empty, or as the body of an onRemove hook / ready callback.          *)
(***************************************************************************)
EXTENDS Integers, Sequences, FiniteSets, TLC

\* ------------------------------------------------------------- bounds
NumElems == 3        \* elements of the page besides <body>
ScriptElems == 2     \* elements the scripts of Spec name (SpecWatch: all)
MaxHandles == 2      \* InDom objects ever constructed
MaxWrapped == 2      \* wrapped handlers ever created by on() / onRemove()
MaxTokens == 2       \* AbortControllers ever created
MaxRemoved == 2      \* removed nodes waiting in undelivered mutation records
ScriptRemoved == 1   \* the same, for the calls the scripts of Spec make
MaxCallbacks == 3    \* callbacks ever passed to onReady
MaxFired == 2        \* invocations counted per wrapped handler
MaxDcl == 2          \* init() calls made before document.body exists
MaxTypes == 2        \* length of the type list passed to on()

Null == -1           \* null reference / no parent node
Body == 0            \* document.body
Elems == 1..NumElems
Nodes == Elems \cup {Body}

EventTypes == {"click"}
\* the type names on() is called with: a mouse/click-family name, another
\* event name, and the empty string (not a valid type)
ListenerTypes == {"click", "keydown"}
TypeArgs == ListenerTypes \cup {""}
Types == ListenerTypes \cup {"onRemove"}
\* the opts argument of on(): the default {}, {capture: true},
\* {once: true}, and a value that is not a plain object
DefaultOpts == [isObject |-> TRUE, capture |-> FALSE, once |-> FALSE]
OptArgs == {DefaultOpts,
            [isObject |-> TRUE, capture |-> TRUE, once |-> FALSE],
            [isObject |-> TRUE, capture |-> FALSE, once |-> TRUE],
            [isObject |-> FALSE, capture |-> FALSE, once |-> FALSE]}
FnArgs == {"fn", "undefined", "notFunction"}
Keys == {"k"}
\* the values setData is called with: a number and a string
Values == {[type |-> "number", text |-> "1"], [type |-> "string", text |-> "1"]}
DefaultValue == [type |-> "number", text |-> "1"]
\* the value of an attribute the page's own code writes
PageText == "0"
\* what a read that finds nothing returns
Undefined == [type |-> "undefined", text |-> ""]
HookKinds == {"noop", "throw", "reattachOn", "removeOther", "off"}
CallbackKinds == {"noop", "throw", "onReady"}

VARIABLES
    ready,        \* InDom.#ready
    onReadyFns,   \* InDom.#onReadyFns: callback ids in queue order
    map,          \* InDom.#map: element -> handle id or Null
    handles,      \* every InDom object constructed so far, by id
    parent,       \* DOM: parent node of each element (Null: none)
    attrs,        \* DOM: the data-* attributes of each element, <<key, text>>
    native,       \* DOM: listeners registered with addEventListener
    aborted,      \* AbortController signals that have been aborted
    nTok,         \* AbortControllers created so far
    observers,    \* MutationObservers observing body
    transient,    \* elements carrying a transient registered observer
    removed,      \* removedNodes of the records not yet delivered, in order
    maybeGone,    \* the batch of the queued microtask check (<<>>: none queued)
    stack,        \* calls in progress, innermost last
    wrapped,      \* wrapped handlers created so far: owner and type
    fired,        \* how often each wrapped handler was invoked
    triggered,    \* types of the synthetic events the last on() dispatched
    stored,       \* history: <<handle, element, key>> of the in-memory
                  \* entries the page has stored with setData(k, v)
    dispatched,   \* wrapped handlers the last dispatchEvent invoked
    unregistered, \* wrapped handlers taken out by off()
    removeCalled, \* handles on which remove() has been called
    gone,         \* live handles that were registered inside a subtree when it
                  \* was taken out of the document, and detached ever since
    err,          \* outcome of the last call made by user code or the host
    bodyExists,   \* document.body is there
    domLoaded,    \* DOMContentLoaded has been dispatched
    dclListeners, \* DOMContentLoaded listeners registered by init()
    callbacks,    \* callbacks passed to onReady so far: behaviour
    queued,       \* ids of the callbacks ever pushed on #onReadyFns, in order
    calls         \* ids of the ready callbacks in the order they were invoked

lifeVars == <<map, handles, parent, attrs, native, aborted, nTok, transient,
              removed, maybeGone, wrapped, fired, dispatched, triggered, stored,
              unregistered,
              removeCalled, gone>>
readyVars == <<onReadyFns, bodyExists, domLoaded, dclListeners, callbacks, queued,
               calls>>
vars == <<ready, observers, stack, err, lifeVars, readyVars>>

\* ------------------------------------------------------------- the DOM
Min(S) == CHOOSE x \in S : \A y \in S : x <= y

\* el.contains(sub) on the tree p: el is an inclusive ancestor of sub
RECURSIVE contains(_, _, _)
contains(p, el, sub) ==
    IF sub = el THEN TRUE
    ELSE IF sub = Body \/ sub = Null THEN FALSE
    ELSE contains(p, el, p[sub])

\* node.isConnected
isConnectedNode(p, n) == n # Null /\ contains(p, Body, n)

\* children in document order (siblings are kept ordered by their id)
children(p, n) == {c \in Elems : p[c] = n}
firstChild(p, n) == IF children(p, n) = {} THEN Null ELSE Min(children(p, n))
nextSibling(p, n) ==
    IF n = Body \/ p[n] = Null THEN Null
    ELSE LET later == {c \in children(p, p[n]) : c > n}
         IN  IF later = {} THEN Null ELSE Min(later)

\* TreeWalker.nextNode() of the walker rooted at body, SHOW_ELEMENT
RECURSIVE following(_, _)
following(p, temp) ==
    IF temp = Null \/ temp = Body THEN Null
    ELSE IF nextSibling(p, temp) # Null THEN nextSibling(p, temp)
    ELSE following(p, p[temp])

nextNode(p, cur) ==
    IF firstChild(p, cur) # Null THEN firstChild(p, cur) ELSE following(p, cur)

\* the observer has a registered (or transient) observer on an inclusive
\* ancestor of n, so a removal of a child of n is recorded
isObserved(p, tr, n) ==
    observers > 0 /\ (isConnectedNode(p, n) \/ \E a \in tr : contains(p, a, n))

\* ascending enumeration of a finite set of numbers
RECURSIVE SetToSeq(_)
SetToSeq(S) == IF S = {} THEN <<>> ELSE <<Min(S)>> \o SetToSeq(S \ {Min(S)})

Range(q) == {q[i] : i \in 1..Len(q)}

\* ------------------------------------------------- the library's state
\* The part of the state that library calls read and write, as one record,
\* so that calls compose (a hook's body is a sequence of calls).  `thrown`
\* is the exception travelling up the stack ("none": no exception).
Cur ==
    [map |-> map, handles |-> handles, parent |-> parent, native |-> native,
     aborted |-> aborted, nTok |-> nTok, transient |-> transient,
     attrs |-> attrs, removed |-> removed, wrapped |-> wrapped, fired |-> fired,
     unregistered |-> unregistered, removeCalled |-> removeCalled,
     gone |-> gone, stack |-> stack, thrown |-> "none",
     dispatched |-> {}, triggered |-> <<>>, stored |-> stored]

noEvents == [t \in Types |-> {}]

newHandle(e) ==
    [el |-> e, eventsNull |-> TRUE, events |-> noEvents,
     abortController |-> Null, dataNull |-> TRUE, data |-> {}]

Allocated(S) == 1..Len(S.handles)
elOf(S, h) == S.handles[h].el

throw(S, e) == [S EXCEPT !.thrown = e]

\* Element.remove() / removeChild: detach e from its parent; the removal is
\* recorded when the parent is observed, and e keeps a transient observer
domRemove(S, e) ==
    IF S.parent[e] = Null THEN S
    ELSE LET seen == isObserved(S.parent, S.transient, S.parent[e])
             inside == {x \in Elems : contains(S.parent, e, x) /\ S.map[x] # Null}
         IN  [S EXCEPT !.parent[e] = Null,
                       !.removed = IF seen THEN Append(@, e) ELSE @,
                       !.transient = IF seen THEN @ \cup {e} ELSE @,
                       !.gone = IF isConnectedNode(S.parent, e)
                                THEN @ \cup {S.map[x] : x \in inside} ELSE @]

\* p.append(e): e leaves its old parent (a removal) and becomes a child of p
domAppend(S, e, p) == [domRemove(S, e) EXCEPT !.parent[e] = p]

\* p.innerHTML = ...: one record whose removedNodes are all children of p
RECURSIVE domRemoveAll(_, _)
domRemoveAll(S, q) ==
    IF q = <<>> THEN S ELSE domRemoveAll(domRemove(S, Head(q)), Tail(q))

domSetHtml(S, p) == domRemoveAll(S, SetToSeq(children(S.parent, p)))

\* --------------------------------------------------- library internals
\* a #checkElement that lets a destroyed handle through
checkElementNoGuard(S, h) == S

\* #checkElement: throws when the handle has been destroyed
checkElement(S, h) ==
    IF elOf(S, h) = Null THEN throw(S, "removed") ELSE S

\* an #isConnected that tests neither the ready state nor the connection
isConnectedNoTest(S, h) == checkElement(S, h)

\* #isConnected: ready first, then #checkElement, then el.isConnected
isConnected(S, h) ==
    IF ~ready THEN throw(S, "notReady")
    ELSE IF checkElement(S, h).thrown # "none" THEN checkElement(S, h)
    ELSE IF ~isConnectedNode(S.parent, elOf(S, h)) THEN throw(S, "notConnected")
    ELSE S

\* InDom.#wrap(el): the registered handle of el, else a new registered one.
\* The result is [S |-> state, h |-> handle].
wrap(S, e) ==
    IF S.map[e] # Null THEN [S |-> S, h |-> S.map[e]]
    ELSE [S |-> [S EXCEPT !.handles = Append(@, newHandle(e)),
                          !.map[e] = Len(S.handles) + 1],
          h |-> Len(S.handles) + 1]

\* new InDom(el) for an Element: the registered handle of el if there is
\* one, else a new object that is NOT put into #map
construct(S, e) ==
    IF S.map[e] # Null THEN [S |-> S, h |-> S.map[e]]
    ELSE [S |-> [S EXCEPT !.handles = Append(@, newHandle(e))],
          h |-> Len(S.handles) + 1]

\* #checkAbortController
checkAbortController(S, h) ==
    IF S.handles[h].abortController # Null THEN S
    ELSE [S EXCEPT !.handles[h].abortController = S.nTok + 1,
                   !.nTok = S.nTok + 1]

\* #checkEvents(type): the lazy events object, registering in #map if needed
checkEvents(S, h) ==
    IF ~S.handles[h].eventsNull THEN S
    ELSE [S EXCEPT !.map[elOf(S, h)] = IF @ = Null THEN h ELSE @,
                   !.handles[h].eventsNull = FALSE]

\* #checkData: the lazy data Map, registering in #map if needed
checkData(S, h) ==
    IF ~S.handles[h].dataNull THEN S
    ELSE [S EXCEPT !.map[elOf(S, h)] = IF @ = Null THEN h ELSE @,
                   !.handles[h].dataNull = FALSE]

\* addEventListener(type, wrapped, {...opts, signal}): nothing when the
\* signal is aborted, or when the same callback is already registered for
\* the type and capture flag
addEventListener(S, e, t, w, opts, signal) ==
    IF signal \in S.aborted THEN S
    ELSE IF \E l \in S.native : /\ l.el = e /\ l.type = t /\ l.w = w
                                /\ l.capture = opts.capture
    THEN S
    ELSE [S EXCEPT !.native = @ \cup {[el |-> e, type |-> t, w |-> w,
                                       signal |-> signal,
                                       capture |-> opts.capture,
                                       once |-> opts.once]}]

\* the listeners an event of type t dispatched on e reaches: those on e,
\* the capturing ones on its ancestors, and all on its ancestors when the
\* event bubbles
hit(S, e, t, bubbles) ==
    {l \in S.native :
        /\ l.type = t
        /\ \/ l.el = e
           \/ contains(S.parent, l.el, e) /\ (l.capture \/ bubbles)}

\* el.dispatchEvent(event) with handlers that call nothing: the listeners
\* reached are invoked, and those added with {once: true} are removed
dispatchEvent(S, e, t, bubbles) ==
    [S EXCEPT !.native = @ \ {l \in hit(S, e, t, bubbles) : l.once},
              !.dispatched = @ \cup {l.w : l \in hit(S, e, t, bubbles)}]

\* the loop of the auto-trigger: one bubbling MouseEvent per type
RECURSIVE trigger(_, _, _)
trigger(S, e, types) ==
    IF types = <<>> THEN S
    ELSE trigger([dispatchEvent(S, e, Head(types), TRUE)
                     EXCEPT !.triggered = Append(@, Head(types))],
                 e, Tail(types))

\* the attach loop of on(): #checkEvents, addEventListener, add to the Set
RECURSIVE attach(_, _, _, _, _)
attach(S, h, types, w, opts) ==
    IF types = <<>> THEN S
    ELSE LET S1 == checkEvents(S, h)
             S2 == addEventListener(S1, elOf(S1, h), Head(types), w, opts,
                                    S1.handles[h].abortController)
         IN  attach([S2 EXCEPT !.handles[h].events[Head(types)] = @ \cup {w}],
                    h, Tail(types), w, opts)

\* a test that takes every type for a mouse type
isMouseTypeAny(t) == TRUE

\* types[i].includes('mouse') || types[i].includes('click')
isMouseType(t) == t = "click"

\* on(type, fn, opts): types is the type list (a single type is a list of
\* one), fn and opts are drawn from FnArgs and OptArgs
onWithTokenFirst(S, h, types, fn, opts) ==
    IF isConnected(S, h).thrown # "none" THEN isConnected(S, h)
    ELSE IF \E i \in 1..Len(types) : types[i] = "" THEN throw(S, "type")
    ELSE IF fn = "undefined" THEN
        IF \E i \in 1..Len(types) : ~isMouseType(types[i])
        THEN throw(S, "autoTrigger")
        ELSE trigger(S, elOf(S, h), types)
    ELSE LET S1 == checkAbortController(S, h)
             w  == Len(S.wrapped) + 1
             S2 == [S1 EXCEPT !.wrapped = Append(@, [owner |-> h,
                                                     type |-> Head(types)]),
                              !.fired = Append(@, 0)]
         IN  IF fn # "fn" \/ ~opts.isObject THEN throw(S1, "type")
             ELSE attach(S2, h, types, w, opts)

onWith(S, h, types, fn, opts) ==
    IF isConnected(S, h).thrown # "none" THEN isConnected(S, h)
    ELSE IF \E i \in 1..Len(types) : types[i] = "" THEN throw(S, "type")
    ELSE IF fn = "undefined" THEN
        IF \E i \in 1..Len(types) : ~isMouseType(types[i])
        THEN throw(S, "autoTrigger")
        ELSE trigger(S, elOf(S, h), types)
    ELSE IF fn # "fn" \/ ~opts.isObject THEN throw(S, "type")
    ELSE LET S1 == checkAbortController(S, h)
             w  == Len(S.wrapped) + 1
             S2 == [S1 EXCEPT !.wrapped = Append(@, [owner |-> h,
                                                     type |-> Head(types)]),
                              !.fired = Append(@, 0)]
         IN  attach(S2, h, types, w, opts)

\* on(type, fn) with a function fn and default options
on(S, h, t) == onWith(S, h, <<t>>, "fn", DefaultOpts)

\* onRemove(fn) with a function fn
onRemove(S, h) ==
    IF isConnected(S, h).thrown # "none" THEN isConnected(S, h)
    ELSE LET w  == Len(S.wrapped) + 1
             S1 == checkEvents(S, h)
         IN  [S1 EXCEPT !.wrapped = Append(@, [owner |-> h,
                                               type |-> "onRemove"]),
                        !.fired = Append(@, 0),
                        !.handles[h].events["onRemove"] = @ \cup {w}]

\* String(v)
String(v) == [type |-> "string", text |-> v.text]

\* el.hasAttribute('data-' + k), getAttribute, setAttribute, removeAttribute
hasAttribute(S, e, k) == \E a \in S.attrs[e] : a[1] = k
getAttribute(S, e, k) ==
    [type |-> "string", text |-> (CHOOSE a \in S.attrs[e] : a[1] = k)[2]]
removeAttribute(S, e, k) ==
    [S EXCEPT !.attrs[e] = {a \in @ : a[1] # k}]
setAttribute(S, e, k, text) ==
    [S EXCEPT !.attrs[e] = {a \in @ : a[1] # k} \cup {<<k, text>>}]

\* setAttr(k, v): #checkElement, then setAttribute(k, String(v))
setAttr(S, h, k, v) ==
    IF checkElement(S, h).thrown # "none" THEN checkElement(S, h)
    ELSE setAttribute(S, elOf(S, h), k, String(v).text)

\* removeAttr(k): #checkElement, then removeAttribute(k)
removeAttr(S, h, k) ==
    IF checkElement(S, h).thrown # "none" THEN checkElement(S, h)
    ELSE removeAttribute(S, elOf(S, h), k)

\* Map.has, Map.get, Map.set and Map.delete on a #data of <<key, value>>
mapHas(d, k) == \E p \in d : p[1] = k
mapGet(d, k) == IF mapHas(d, k) THEN (CHOOSE p \in d : p[1] = k)[2] ELSE Undefined
mapDelete(d, k) == {p \in d : p[1] # k}
mapSet(d, k, v) == mapDelete(d, k) \cup {<<k, v>>}

\* hasData(k): #checkElement only, then the attribute or the #data entry.
\* The result is [S |-> state, value |-> what the call returns].
hasData(S, h, k) ==
    IF checkElement(S, h).thrown # "none"
    THEN [S |-> checkElement(S, h), value |-> Undefined]
    ELSE [S |-> S,
          value |-> \/ hasAttribute(S, elOf(S, h), k)
                    \/ /\ ~S.handles[h].dataNull
                       /\ mapHas(S.handles[h].data, k)]

\* getData(k): the data-k attribute when the element has one, else
\* #checkData and the #data entry
getData(S, h, k) ==
    IF isConnected(S, h).thrown # "none"
    THEN [S |-> isConnected(S, h), value |-> Undefined]
    ELSE IF hasAttribute(S, elOf(S, h), k)
    THEN [S |-> S, value |-> getAttribute(S, elOf(S, h), k)]
    ELSE [S |-> checkData(S, h), value |-> mapGet(S.handles[h].data, k)]

\* a setData that always writes the in-memory store
setDataInMemory(S, h, k, v) ==
    IF isConnected(S, h).thrown # "none" THEN isConnected(S, h)
    ELSE [checkData(S, h) EXCEPT !.handles[h].data = mapSet(@, k, v)]

\* setData(k, v): the data-k attribute when the element has one, else #data
setDataWith(S, h, k, v) ==
    IF isConnected(S, h).thrown # "none" THEN isConnected(S, h)
    ELSE IF hasAttribute(S, elOf(S, h), k) THEN setAttr(S, h, k, v)
    ELSE [checkData(S, h) EXCEPT !.handles[h].data = mapSet(@, k, v)]

\* setData(k, v) with the value v a number
setData(S, h, k) == setDataWith(S, h, k, DefaultValue)

\* removeData(k): the data-k attribute when the element has one, else #data
removeData(S, h, k) ==
    IF isConnected(S, h).thrown # "none" THEN isConnected(S, h)
    ELSE IF hasAttribute(S, elOf(S, h), k) THEN removeAttr(S, h, k)
    ELSE [checkData(S, h) EXCEPT !.handles[h].data = mapDelete(@, k)]

\* setHtml(content): #checkElement, then innerHTML = content
setHtml(S, h) ==
    IF checkElement(S, h).thrown # "none" THEN checkElement(S, h)
    ELSE domSetHtml(S, elOf(S, h))

\* append(child) with an element e: #checkElement, then appendChild
append(S, h, e) ==
    IF checkElement(S, h).thrown # "none" THEN checkElement(S, h)
    ELSE domAppend(S, e, elOf(S, h))

\* removeEventListener(type, w) with no options: takes out the listener
\* registered for the callback without the capture flag
removeEventListener(S, e, t, w) ==
    [S EXCEPT !.native = {l \in @ : ~(/\ l.el = e /\ l.type = t /\ l.w = w
                                      /\ ~l.capture)}]

\* removeEventListener for each handler of the set ws
RECURSIVE removeListeners(_, _, _, _)
removeListeners(S, e, t, ws) ==
    IF ws = {} THEN S
    ELSE removeListeners(removeEventListener(S, e, t, Min(ws)), e, t,
                         ws \ {Min(ws)})

\* the loop of off(): every type of #events, every handler of its Set
RECURSIVE removeTypes(_, _, _)
removeTypes(S, h, ts) ==
    IF ts = {} THEN S
    ELSE LET t == CHOOSE x \in ts : TRUE
         IN  removeTypes(removeListeners(S, elOf(S, h), t,
                                         S.handles[h].events[t]),
                         h, ts \ {t})

\* off() with no arguments: drops the onRemove bucket and every listener
off(S, h) ==
    IF checkElement(S, h).thrown # "none" THEN checkElement(S, h)
    ELSE IF S.handles[h].eventsNull THEN S
    ELSE [removeTypes(S, h, ListenerTypes) EXCEPT
            !.unregistered = @ \cup UNION {S.handles[h].events[t] : t \in Types},
            !.handles[h].events = noEvents]

\* off(type): drops the bucket of the type, listeners or hooks
offType(S, h, t) ==
    IF checkElement(S, h).thrown # "none" THEN checkElement(S, h)
    ELSE IF S.handles[h].eventsNull THEN S
    ELSE IF t = "onRemove" THEN
        [S EXCEPT !.unregistered = @ \cup S.handles[h].events[t],
                  !.handles[h].events[t] = {}]
    ELSE IF t = "" THEN throw(S, "type")
    ELSE IF S.handles[h].events[t] = {} THEN S
    ELSE [removeListeners(S, elOf(S, h), t, S.handles[h].events[t]) EXCEPT
            !.unregistered = @ \cup S.handles[h].events[t],
            !.handles[h].events[t] = {}]

\* off(type, fn) with fn the wrapped handler w
offFn(S, h, t, w) ==
    IF checkElement(S, h).thrown # "none" THEN checkElement(S, h)
    ELSE IF S.handles[h].eventsNull THEN S
    ELSE IF t = "onRemove" THEN
        [S EXCEPT !.unregistered = @ \cup (S.handles[h].events[t] \cap {w}),
                  !.handles[h].events[t] = @ \ {w}]
    ELSE IF t = "" THEN throw(S, "type")
    ELSE IF S.handles[h].events[t] = {} THEN S
    ELSE [removeEventListener(S, elOf(S, h), t, w) EXCEPT
            !.unregistered = @ \cup (S.handles[h].events[t] \cap {w}),
            !.handles[h].events[t] = @ \ {w}]

\* ------------------------------------------------------- InDomArray
\* the type argument of off() left out, and the handler argument left out
NoType == "undefined"
NoFn == 0

\* n.off(type, fn) by the arguments given
offCall(S, h, t, w) ==
    IF t = NoType THEN off(S, h)
    ELSE IF w = NoFn THEN offType(S, h, t)
    ELSE offFn(S, h, t, w)

\* this.forEach((n, i) => n.off(type, fnArr[i])) from index i on; fns is
\* <<>> for this.forEach(n => n.off(type)).  An exception ends the loop.
RECURSIVE forEachOff(_, _, _, _, _)
forEachOff(S, arr, t, fns, i) ==
    IF i > Len(arr) THEN S
    ELSE LET S1 == offCall(S, arr[i], t, IF i <= Len(fns) THEN fns[i] ELSE NoFn)
         IN  IF S1.thrown # "none" THEN S1
             ELSE forEachOff(S1, arr, t, fns, i + 1)

\* an InDomArray.off that does not compare the lengths
arrayOffNoLengthCheck(S, arr, t, fnArr) == forEachOff(S, arr, t, fnArr.fns, 1)

\* InDomArray.off(type, fnArr): arr is the collection (handle ids); fnArr
\* says whether the argument is truthy, whether it is an array, and its
\* entries
arrayOff(S, arr, t, fnArr) ==
    IF fnArr.given THEN
        IF ~fnArr.isArray \/ Len(fnArr.fns) # Len(arr) THEN throw(S, "range")
        ELSE forEachOff(S, arr, t, fnArr.fns, 1)
    ELSE forEachOff(S, arr, t, <<>>, 1)

\* #destroy up to the hook loop: abort, clear data, snapshot the hooks,
\* drop the events, delete the registry entry; the hooks and the final
\* `#el = null` are the steps of the frame pushed here
destroyKeepData(S, h) ==
    IF checkElement(S, h).thrown # "none" THEN checkElement(S, h)
    ELSE LET ac == S.handles[h].abortController
             removeHandlers == SetToSeq(S.handles[h].events["onRemove"])
         IN  [S EXCEPT
                !.aborted = IF ac # Null THEN @ \cup {ac} ELSE @,
                !.native = IF ac # Null THEN {l \in @ : l.signal # ac} ELSE @,
                !.handles[h].abortController = Null,
                !.handles[h].eventsNull = TRUE,
                !.handles[h].events = noEvents,
                !.map[elOf(S, h)] = Null,
                !.stack = Append(@, [kind |-> "destroy", h |-> h,
                                     rest |-> removeHandlers])]

destroy(S, h) ==
    IF checkElement(S, h).thrown # "none" THEN checkElement(S, h)
    ELSE LET ac == S.handles[h].abortController
             removeHandlers == SetToSeq(S.handles[h].events["onRemove"])
         IN  [S EXCEPT
                !.aborted = IF ac # Null THEN @ \cup {ac} ELSE @,
                !.native = IF ac # Null THEN {l \in @ : l.signal # ac} ELSE @,
                !.handles[h].abortController = Null,
                !.handles[h].dataNull = TRUE,
                !.handles[h].data = {},
                !.handles[h].eventsNull = TRUE,
                !.handles[h].events = noEvents,
                !.map[elOf(S, h)] = Null,
                !.stack = Append(@, [kind |-> "destroy", h |-> h,
                                     rest |-> removeHandlers])]

\* remove(): #checkElement, el.remove(), #destroy
removeNoDetach(S, h) ==
    LET S0 == [S EXCEPT !.removeCalled = @ \cup {h}]
    IN  IF checkElement(S0, h).thrown # "none" THEN checkElement(S0, h)
        ELSE destroy(S0, h)

remove(S, h) ==
    LET S0 == [S EXCEPT !.removeCalled = @ \cup {h}]
    IN  IF checkElement(S0, h).thrown # "none" THEN checkElement(S0, h)
        ELSE destroy(domRemove(S0, elOf(S0, h)), h)

\* ------------------------------------------------------ the watcher
addTo(batch, h) == IF h \in Range(batch) THEN batch ELSE Append(batch, h)

\* a walker loop that does not stop at the end of el's subtree
RECURSIVE walkNoContains(_, _, _, _, _)
walkNoContains(p, m, el, cur, batch) ==
    LET sub == nextNode(p, cur)
    IN  IF sub = Null THEN batch
        ELSE walkNoContains(p, m, el, sub,
                            IF m[sub] # Null THEN addTo(batch, m[sub]) ELSE batch)

\* the walker loop of the observer callback: from cur, visit nextNode()
\* while el contains it, adding the registered handles met
RECURSIVE walk(_, _, _, _, _)
walk(p, m, el, cur, batch) ==
    LET sub == nextNode(p, cur)
    IN  IF sub = Null \/ ~contains(p, el, sub) THEN batch
        ELSE walk(p, m, el, sub,
                  IF m[sub] # Null THEN addTo(batch, m[sub]) ELSE batch)

\* one removed node: the direct probe of #map, then the walk of its subtree
probe(p, m, el, batch) ==
    walk(p, m, el, el, IF m[el] # Null THEN addTo(batch, m[el]) ELSE batch)

\* the callback's loops over the records and their removedNodes
RECURSIVE collect(_, _, _, _)
collect(p, m, nodes, batch) ==
    IF nodes = <<>> THEN batch
    ELSE collect(p, m, Tail(nodes), probe(p, m, Head(nodes), batch))

\* ------------------------------------------------------------ frames
frame(kind, h, rest) == [kind |-> kind, h |-> h, rest |-> rest]
Top == stack[Len(stack)]
Idle == stack = <<>>

\* an exception leaves every frame up to the event dispatch of
\* DOMContentLoaded, which reports it and goes on with the next listener
RECURSIVE unwind(_)
unwind(st) ==
    IF st = <<>> \/ st[Len(st)].kind = "dcl" THEN st
    ELSE unwind(SubSeq(st, 1, Len(st) - 1))

\* the state after a call (or a step of a call) that left the library in R
CommitWith(R, ws) ==
    /\ map' = R.map
    /\ handles' = R.handles
    /\ parent' = R.parent
    /\ native' = R.native
    /\ aborted' = R.aborted
    /\ nTok' = R.nTok
    /\ transient' = R.transient
    /\ removed' = R.removed
    /\ wrapped' = R.wrapped
    /\ fired' = R.fired
    /\ unregistered' = R.unregistered
    /\ removeCalled' = R.removeCalled
    /\ gone' = {n \in R.gone : /\ R.handles[n].el # Null
                               /\ ~isConnectedNode(R.parent, R.handles[n].el)}
    /\ stack' = IF R.thrown # "none" THEN unwind(R.stack) ELSE R.stack
    /\ err' = R.thrown
    /\ dispatched' = R.dispatched \cup ws
    /\ triggered' = R.triggered
    /\ stored' = R.stored
    /\ attrs' = R.attrs
    /\ UNCHANGED <<ready, observers, maybeGone, readyVars>>

\* the state R a call that dispatched no event has produced becomes current
Commit(R) == CommitWith(R, {})

\* room for one more wrapped handler / for the controller on() may create
roomForOn(S, h) ==
    /\ Len(S.wrapped) < MaxWrapped
    /\ S.handles[h].abortController # Null \/ S.nTok < MaxTokens

\* ------------------------------------------- calls made by user code
\* getOne / get / getById / getParent / getNext / getPrev / getSelfOrParent
Wrap(e) ==
    /\ Idle
    /\ map[e] # Null \/ Len(handles) < MaxHandles
    /\ Commit(wrap(Cur, e).S)

\* new InDom(el) / $n(el)
Construct(e) ==
    /\ Idle
    /\ map[e] # Null \/ Len(handles) < MaxHandles
    /\ Commit(construct(Cur, e).S)

On(h, t) ==
    /\ Idle
    /\ isConnected(Cur, h).thrown # "none" \/ roomForOn(Cur, h)
    /\ Commit(on(Cur, h, t))

\* on(type, fn, opts) with any arguments
OnWith(h, types, fn, opts) ==
    /\ Idle
    /\ onWith(Cur, h, types, fn, opts).thrown # "none" \/ fn = "undefined"
            \/ roomForOn(Cur, h)
    /\ Commit(onWith(Cur, h, types, fn, opts))

\* off(type)
OffType(h, t) ==
    /\ Idle
    /\ Commit(offType(Cur, h, t))

\* off(type, fn) with a wrapped handler that on() or onRemove() returned
OffFn(h, t, w) ==
    /\ Idle
    /\ Commit(offFn(Cur, h, t, w))

OnRemove(h) ==
    /\ Idle
    /\ isConnected(Cur, h).thrown # "none" \/ Len(wrapped) < MaxWrapped
    /\ Commit(onRemove(Cur, h))

SetData(h, k) ==
    /\ Idle
    /\ Commit(setData(Cur, h, k))

SetDataWith(h, k, v) ==
    /\ Idle
    /\ LET R == setDataWith(Cur, h, k, v)
       IN  Commit([R EXCEPT !.stored =
                      IF R.thrown = "none"
                         /\ ~hasAttribute(Cur, handles[h].el, k)
                      THEN @ \cup {<<h, handles[h].el, k>>} ELSE @])

GetData(h, k) ==
    /\ Idle
    /\ Commit(getData(Cur, h, k).S)

HasData(h, k) ==
    /\ Idle
    /\ Commit(hasData(Cur, h, k).S)

RemoveData(h, k) ==
    /\ Idle
    /\ Commit(removeData(Cur, h, k))

\* the page's own code sets or removes the data-k attribute of an element
NativeSetAttribute(e, k) ==
    /\ Idle
    /\ Commit(setAttribute(Cur, e, k, PageText))

NativeRemoveAttribute(e, k) ==
    /\ Idle
    /\ hasAttribute(Cur, e, k)
    /\ Commit(removeAttribute(Cur, e, k))

Off(h) ==
    /\ Idle
    /\ Commit(off(Cur, h))

ArrayOff(arr, t, fnArr) ==
    /\ Idle
    /\ Commit(arrayOff(Cur, arr, t, fnArr))

\* el() / getElement()
El(h) ==
    /\ Idle
    /\ Commit(checkElement(Cur, h))

SetHtml(h) ==
    /\ Idle
    /\ Len(setHtml(Cur, h).removed) <= MaxRemoved
    /\ Commit(setHtml(Cur, h))

AppendTo(h, e) ==
    /\ Idle
    /\ elOf(Cur, h) # Null => ~contains(parent, e, elOf(Cur, h))
    /\ Len(append(Cur, h, e).removed) <= MaxRemoved
    /\ Commit(append(Cur, h, e))

Remove(h) ==
    /\ Idle
    /\ Len(remove(Cur, h).removed) <= MaxRemoved
    /\ Commit(remove(Cur, h))

\* ------------------------------- DOM calls that bypass the library
NativeRemove(e) ==
    /\ Idle
    /\ parent[e] # Null
    /\ Len(domRemove(Cur, e).removed) <= MaxRemoved
    /\ Commit(domRemove(Cur, e))

NativeAppend(e, p) ==
    /\ Idle
    /\ ~contains(parent, e, p)
    /\ Len(domAppend(Cur, e, p).removed) <= MaxRemoved
    /\ Commit(domAppend(Cur, e, p))

NativeSetHtml(p) ==
    /\ Idle
    /\ children(parent, p) # {}
    /\ Len(domSetHtml(Cur, p).removed) <= MaxRemoved
    /\ Commit(domSetHtml(Cur, p))

\* the handlers dispatchEvent(type) on e invokes
invoked(e, t) == {l.w : l \in hit(Cur, e, t, FALSE)}

bump(f, ws) == [i \in 1..Len(f) |-> IF i \in ws /\ f[i] < MaxFired THEN f[i] + 1 ELSE f[i]]

\* el.dispatchEvent(new Event(type)) with handlers that call nothing: the
\* listeners on el for the type, whose signal is not aborted, are invoked
Dispatch(e, t) ==
    /\ Idle
    /\ Commit(dispatchEvent(Cur, e, t, FALSE))

\* --------------------------------------------- steps of calls in progress
replaceTop(st, f) == [st EXCEPT ![Len(st)] = f]
pop(st) == SubSeq(st, 1, Len(st) - 1)

\* What a hook of handle h does, from the state S in which it is called.
\* A hook is user code: each invocation does one of these.
hookBody(S, h, kind, other) ==
        CASE kind = "noop" -> S
          [] kind = "throw" -> throw(S, "hook")
          [] kind = "reattachOn" ->
                \* n => { document.body.append(n.el()); n.on('click', f) }
                IF checkElement(S, h).thrown # "none" THEN checkElement(S, h)
                ELSE LET S1 == domAppend(S, elOf(S, h), Body)
                     IN  IF roomForOn(S1, h) THEN on(S1, h, "click") ELSE S1
          [] kind = "removeOther" ->
                \* n => other.remove()
                remove(S, other)
          [] kind = "off" ->
                \* n => n.off()
                off(S, h)

\* the loop of #destroy invokes the next snapshotted hook
HookStep ==
    /\ ~Idle
    /\ Top.kind = "destroy"
    /\ Top.rest # <<>>
    /\ LET w  == Head(Top.rest)
           S1 == [Cur EXCEPT !.stack = replaceTop(@, frame("destroy", Top.h,
                                                         Tail(Top.rest))),
                             !.fired = bump(@, {w})]
       IN  \E kind \in HookKinds, other \in Allocated(Cur) :
              /\ kind # "removeOther" => other = 1
              /\ Commit(hookBody(S1, Top.h, kind, other))

\* the last statement of #destroy: this.#el = null
DestroyEnd ==
    /\ ~Idle
    /\ Top.kind = "destroy"
    /\ Top.rest = <<>>
    /\ Commit([Cur EXCEPT !.handles[Top.h].el = Null, !.stack = pop(@)])

\* the MutationObserver callback: builds maybeGone from the delivered
\* records and queues the microtask when it is not empty
ObserverCallback ==
    /\ Idle
    /\ removed # <<>>
    /\ maybeGone = <<>>
    /\ maybeGone' = collect(parent, map, removed, <<>>)
    /\ removed' = <<>>
    /\ transient' = {}
    /\ err' = "none"
    /\ dispatched' = {}
    /\ triggered' = <<>>
    /\ UNCHANGED <<ready, observers, stack, map, handles, parent, attrs, native, stored,
                   aborted, nTok, wrapped, fired, unregistered, removeCalled,
                   gone, readyVars>>

\* the queued microtask starts: for (const n of maybeGone)
MicrotaskCheck ==
    /\ Idle
    /\ maybeGone # <<>>
    /\ stack' = <<frame("check", 1, maybeGone)>>
    /\ maybeGone' = <<>>
    /\ err' = "none"
    /\ dispatched' = {}
    /\ triggered' = <<>>
    /\ UNCHANGED <<ready, observers, map, handles, parent, attrs, native, stored,
                   aborted, nTok, transient, removed, wrapped, fired,
                   unregistered, removeCalled, gone, readyVars>>

\* an iteration that removes n without testing isConnected
checkBodyNoTest(S, n) ==
    IF checkElement(S, n).thrown # "none" THEN checkElement(S, n)
    ELSE remove(S, n)

\* one iteration: if (!n.el().isConnected) n.remove()
checkBody(S, n) ==
    IF checkElement(S, n).thrown # "none" THEN checkElement(S, n)
    ELSE IF ~isConnectedNode(S.parent, elOf(S, n)) THEN remove(S, n)
    ELSE S

\* The frame of the check keeps the batch in `rest` and the position of
\* the next handle in `h`.
CheckStep ==
    /\ ~Idle
    /\ Top.kind = "check"
    /\ Top.h <= Len(Top.rest)
    /\ Commit(checkBody([Cur EXCEPT !.stack = replaceTop(@, frame("check", Top.h + 1,
                                                             Top.rest))],
                        Top.rest[Top.h]))

CheckEnd ==
    /\ ~Idle
    /\ Top.kind = "check"
    /\ Top.h > Len(Top.rest)
    /\ Commit([Cur EXCEPT !.stack = pop(@)])

\* ------------------------------------------------------ the ready gate
\* the body of init() below its two early returns: observe body, set
\* #ready, and start the forEach over #onReadyFns when it is not empty
startWatcher(st) ==
    /\ observers' = observers + 1
    /\ ready' = TRUE
    /\ stack' = IF Len(onReadyFns) > 0
                THEN Append(st, frame("flush", Null, onReadyFns))
                ELSE st

\* an init() that does not wait for document.body
initFromNoBodyTest(st) ==
    IF ready THEN
        /\ stack' = st
        /\ UNCHANGED <<ready, observers, dclListeners>>
    ELSE
        /\ startWatcher(st)
        /\ UNCHANGED dclListeners

\* an init() without the early return on #ready
initFromAgain(st) ==
    IF ~bodyExists THEN
        /\ dclListeners' = dclListeners + 1
        /\ stack' = st
        /\ UNCHANGED <<ready, observers>>
    ELSE
        /\ startWatcher(st)
        /\ UNCHANGED dclListeners

\* InDom.init() called from the frames st
initFrom(st) ==
    IF ready THEN
        /\ stack' = st
        /\ UNCHANGED <<ready, observers, dclListeners>>
    ELSE IF ~bodyExists THEN
        /\ dclListeners' = dclListeners + 1
        /\ stack' = st
        /\ UNCHANGED <<ready, observers>>
    ELSE
        /\ startWatcher(st)
        /\ UNCHANGED dclListeners

InitCall ==
    /\ Idle
    /\ ~ready /\ ~bodyExists => dclListeners < MaxDcl
    /\ initFrom(stack)
    /\ err' = "none"
    /\ UNCHANGED <<lifeVars, onReadyFns, bodyExists, domLoaded, callbacks, queued,
                   calls>>

\* an invocation whose nested onReady queues the function even when #ready
invokeCallbackQueueNested(c, st, cbs) ==
    LET kind == cbs[c]
        nested == kind = "onReady" /\ Len(cbs) < MaxCallbacks
    IN  /\ callbacks' = IF nested THEN Append(cbs, "noop") ELSE cbs
        /\ calls' = Append(calls, c)
        /\ onReadyFns' = IF nested THEN Append(onReadyFns, Len(cbs) + 1)
                         ELSE onReadyFns
        /\ queued' = IF nested THEN Append(queued, Len(cbs) + 1) ELSE queued
        /\ stack' = IF kind = "throw" THEN unwind(st) ELSE st
        /\ err' = IF kind = "throw" THEN "callback" ELSE "none"

\* The ready callback c is invoked from the frames st, when the callbacks
\* passed so far are cbs.  A callback of kind "onReady" passes a further
\* function to InDom.onReady: invoked at once when #ready, else queued.
invokeCallback(c, st, cbs) ==
    LET kind == cbs[c]
        nested == kind = "onReady" /\ Len(cbs) < MaxCallbacks
    IN  /\ callbacks' = IF nested THEN Append(cbs, "noop") ELSE cbs
        /\ calls' = IF nested /\ ready THEN calls \o <<c, Len(cbs) + 1>>
                    ELSE Append(calls, c)
        /\ onReadyFns' = IF nested /\ ~ready THEN Append(onReadyFns, Len(cbs) + 1)
                         ELSE onReadyFns
        /\ queued' = IF nested /\ ~ready THEN Append(queued, Len(cbs) + 1)
                     ELSE queued
        /\ stack' = IF kind = "throw" THEN unwind(st) ELSE st
        /\ err' = IF kind = "throw" THEN "callback" ELSE "none"

\* an onReady that queues fn whatever #ready is
OnReadyAlwaysQueue(kind) ==
    /\ Idle
    /\ Len(callbacks) < MaxCallbacks
    /\ callbacks' = Append(callbacks, kind)
    /\ onReadyFns' = Append(onReadyFns, Len(callbacks) + 1)
    /\ queued' = Append(queued, Len(callbacks) + 1)
    /\ err' = "none"
    /\ UNCHANGED <<calls, stack, ready, observers, lifeVars, bodyExists, domLoaded,
                   dclListeners>>

\* InDom.onReady(fn) with a function fn
OnReady(kind) ==
    /\ Idle
    /\ Len(callbacks) < MaxCallbacks
    /\ IF ready
       THEN invokeCallback(Len(callbacks) + 1, stack, Append(callbacks, kind))
       ELSE /\ callbacks' = Append(callbacks, kind)
            /\ onReadyFns' = Append(onReadyFns, Len(callbacks) + 1)
            /\ queued' = Append(queued, Len(callbacks) + 1)
            /\ err' = "none"
            /\ UNCHANGED <<calls, stack>>
    /\ UNCHANGED <<ready, observers, lifeVars, bodyExists, domLoaded,
                   dclListeners>>

\* InDom.onReady(x) with x not a function: the TypeError of line 670
OnReadyNotFunction ==
    /\ Idle
    /\ err' = "type"
    /\ UNCHANGED <<ready, observers, stack, lifeVars, readyVars>>

\* one iteration of this.#onReadyFns.forEach(fn => fn())
FlushStep ==
    /\ ~Idle
    /\ Top.kind = "flush"
    /\ Top.rest # <<>>
    /\ invokeCallback(Head(Top.rest),
                      replaceTop(stack, frame("flush", Null, Tail(Top.rest))),
                      callbacks)
    /\ UNCHANGED <<ready, observers, lifeVars, bodyExists, domLoaded,
                   dclListeners>>

\* after the forEach: this.#onReadyFns.length = 0
FlushEnd ==
    /\ ~Idle
    /\ Top.kind = "flush"
    /\ Top.rest = <<>>
    /\ onReadyFns' = <<>>
    /\ stack' = pop(stack)
    /\ err' = "none"
    /\ UNCHANGED <<ready, observers, lifeVars, bodyExists, domLoaded, dclListeners,
                   callbacks, queued, calls>>

\* the parser creates <body>
BodyParsed ==
    /\ Idle
    /\ ~bodyExists
    /\ bodyExists' = TRUE
    /\ UNCHANGED <<ready, observers, stack, err, lifeVars, onReadyFns, domLoaded,
                   dclListeners, callbacks, queued, calls>>

\* the document dispatches DOMContentLoaded to the {once: true} listeners
DomContentLoaded ==
    /\ Idle
    /\ ~domLoaded
    /\ domLoaded' = TRUE
    /\ bodyExists' = TRUE
    /\ dclListeners' = 0
    /\ stack' = IF dclListeners > 0 THEN <<frame("dcl", dclListeners, <<>>)>>
                ELSE stack
    /\ err' = "none"
    /\ UNCHANGED <<ready, observers, lifeVars, onReadyFns, callbacks, queued,
                   calls>>

\* the next DOMContentLoaded listener runs: () => this.init()
DclStep ==
    /\ ~Idle
    /\ Top.kind = "dcl"
    /\ Top.h > 0
    /\ initFrom(replaceTop(stack, frame("dcl", Top.h - 1, <<>>)))
    /\ err' = "none"
    /\ UNCHANGED <<lifeVars, onReadyFns, bodyExists, domLoaded, callbacks, queued,
                   calls>>

DclEnd ==
    /\ ~Idle
    /\ Top.kind = "dcl"
    /\ Top.h = 0
    /\ stack' = pop(stack)
    /\ UNCHANGED <<ready, observers, err, lifeVars, readyVars>>

\* ---------------------------------------------------- specifications
InitCommon ==
    /\ onReadyFns = <<>>
    /\ map = [e \in Elems |-> Null]
    /\ handles = <<>>
    /\ attrs = [e \in Elems |-> {}]
    /\ native = {}
    /\ aborted = {}
    /\ nTok = 0
    /\ transient = {}
    /\ removed = <<>>
    /\ maybeGone = <<>>
    /\ stack = <<>>
    /\ wrapped = <<>>
    /\ fired = <<>>
    /\ dispatched = {}
    /\ triggered = <<>>
    /\ stored = {}
    /\ unregistered = {}
    /\ removeCalled = {}
    /\ gone = {}
    /\ queued = <<>>
    /\ err = "none"
    /\ callbacks = <<>>
    /\ calls = <<>>

\* The script was loaded with body present, so the InDom.init() at its
\* end (line 2060) has started the watcher.
InitStarted ==
    /\ InitCommon
    /\ ready = TRUE
    /\ observers = 1
    /\ bodyExists = TRUE
    /\ domLoaded = TRUE
    /\ dclListeners = 0

\* The page of Spec: e1 is a child of body, e2 a child of e1; the other
\* elements are not in the document.
Init ==
    /\ InitStarted
    /\ parent = [e \in Elems |-> IF e <= ScriptElems THEN e - 1 ELSE Null]

\* The page of SpecWatch: e1 is a child of body, e2 of e1, e3 of e2, ...
InitWatch ==
    /\ InitStarted
    /\ parent = [e \in Elems |-> e - 1]

\* the elements and nodes the scripts of Spec call the DOM and InDom with
Script == 1..ScriptElems
ScriptNodes == Script \cup {Body}

\* a script leaves at most ScriptRemoved removed nodes undelivered
FewPending == Len(removed') <= ScriptRemoved

Next ==
    \/ InitCall
    \/ \E e \in Script : Wrap(e)
    \/ \E e \in Script : Construct(e)
    \/ \E h \in 1..Len(handles), t \in EventTypes : On(h, t)
    \/ \E h \in 1..Len(handles) : OnRemove(h)
    \/ \E h \in 1..Len(handles) : Off(h)
    \/ \E h \in 1..Len(handles) : El(h)
    \/ \E h \in 1..Len(handles) : SetHtml(h) /\ FewPending
    \/ \E h \in 1..Len(handles), e \in Script : AppendTo(h, e) /\ FewPending
    \/ \E h \in 1..Len(handles) : Remove(h) /\ FewPending
    \/ \E e \in Script : NativeRemove(e) /\ FewPending
    \/ \E e \in Script, p \in ScriptNodes : NativeAppend(e, p) /\ FewPending
    \/ \E p \in ScriptNodes : NativeSetHtml(p) /\ FewPending
    \/ \E e \in Script, t \in EventTypes : Dispatch(e, t)
    \/ ObserverCallback
    \/ MicrotaskCheck
    \/ CheckStep
    \/ CheckEnd
    \/ HookStep
    \/ DestroyEnd

Spec == Init /\ [][Next]_vars

\* The watcher over the whole page: handles that hold data, no listeners
\* and no hooks.
NextWatch ==
    \/ \E e \in Elems : Wrap(e)
    \/ \E h \in 1..Len(handles), k \in Keys : SetData(h, k)
    \/ \E h \in 1..Len(handles) : Remove(h)
    \/ \E e \in Elems : NativeRemove(e)
    \/ \E e \in Elems, p \in Nodes : NativeAppend(e, p)
    \/ \E p \in Nodes : NativeSetHtml(p)
    \/ ObserverCallback
    \/ MicrotaskCheck
    \/ CheckStep
    \/ CheckEnd
    \/ DestroyEnd

SpecWatch == InitWatch /\ [][NextWatch]_vars

\* The ready gate alone.  The script is loaded while the document is still
\* being parsed: the InDom.init() at its end (line 2060) has started the
\* watcher when body was there, and has left a DOMContentLoaded listener
\* when it was not.
InitReady ==
    /\ InitCommon
    /\ parent = [e \in Elems |-> e - 1]
    /\ bodyExists \in BOOLEAN
    /\ domLoaded = FALSE
    /\ ready = bodyExists
    /\ observers = (IF bodyExists THEN 1 ELSE 0)
    /\ dclListeners = (IF bodyExists THEN 0 ELSE 1)

NextReady ==
    \/ InitCall
    \/ \E kind \in CallbackKinds : OnReady(kind)
    \/ OnReadyNotFunction
    \/ FlushStep
    \/ FlushEnd
    \/ BodyParsed
    \/ DomContentLoaded
    \/ DclStep
    \/ DclEnd

SpecReady == InitReady /\ [][NextReady]_vars

\* The listeners of a page whose script was loaded before body existed:
\* body has been parsed since, e1 is a child of body and e2 of e1, the
\* other elements are not in the document, and the watcher starts when
\* the page calls init().
InitEvents ==
    /\ InitCommon
    /\ parent = [e \in Elems |-> IF e <= ScriptElems THEN e - 1 ELSE Null]
    /\ bodyExists = TRUE
    /\ domLoaded = FALSE
    /\ ready = FALSE
    /\ observers = 0
    /\ dclListeners = 1

\* the type lists on() is called with: one type, or "click" and then more
RECURSIVE clicks(_)
clicks(n) == IF n = 0 THEN <<>> ELSE <<"click">> \o clicks(n - 1)
TypeLists == {Append(clicks(n), t) : n \in 0..(MaxTypes - 1), t \in TypeArgs}

\* the handler and options on() is called with: a function with each of
\* the options, no handler, and a handler that is not a function
HandlerArgs == {<<"fn", o>> : o \in OptArgs}
                  \cup {<<"undefined", DefaultOpts>>, <<"notFunction", DefaultOpts>>}

NextEvents ==
    \/ InitCall
    \/ \E e \in Elems : Wrap(e)
    \/ \E h \in 1..Len(handles), types \in TypeLists, a \in HandlerArgs :
          OnWith(h, types, a[1], a[2])
    \/ \E h \in 1..Len(handles) : OnRemove(h)
    \/ \E h \in 1..Len(handles) : Off(h)
    \/ \E h \in 1..Len(handles), t \in TypeArgs \cup {"onRemove"} : OffType(h, t)
    \/ \E h \in 1..Len(handles), t \in TypeArgs \cup {"onRemove"},
          w \in 1..Len(wrapped) : OffFn(h, t, w)
    \/ \E e \in Elems, t \in ListenerTypes : Dispatch(e, t)

SpecEvents == InitEvents /\ [][NextEvents]_vars

\* SpecData: the data operations.  The document has been parsed, e1 and e2
\* are in it and may carry a data-k attribute, the other elements are
\* outside; init() has not run yet.
InitData ==
    /\ onReadyFns = <<>>
    /\ map = [e \in Elems |-> Null]
    /\ handles = <<>>
    /\ attrs \in [Elems -> SUBSET {<<k, PageText>> : k \in Keys}]
    /\ native = {}
    /\ aborted = {}
    /\ nTok = 0
    /\ transient = {}
    /\ removed = <<>>
    /\ maybeGone = <<>>
    /\ stack = <<>>
    /\ wrapped = <<>>
    /\ fired = <<>>
    /\ dispatched = {}
    /\ triggered = <<>>
    /\ stored = {}
    /\ unregistered = {}
    /\ removeCalled = {}
    /\ gone = {}
    /\ queued = <<>>
    /\ err = "none"
    /\ callbacks = <<>>
    /\ calls = <<>>
    /\ parent = [e \in Elems |-> IF e <= ScriptElems THEN e - 1 ELSE Null]
    /\ bodyExists = TRUE
    /\ domLoaded = FALSE
    /\ ready = FALSE
    /\ observers = 0
    /\ dclListeners = 1

NextData ==
    \/ InitCall
    \/ \E e \in Elems : Wrap(e)
    \/ \E h \in 1..Len(handles), k \in Keys, v \in Values : SetDataWith(h, k, v)
    \/ \E h \in 1..Len(handles), k \in Keys : GetData(h, k)
    \/ \E h \in 1..Len(handles), k \in Keys : HasData(h, k)
    \/ \E h \in 1..Len(handles), k \in Keys : RemoveData(h, k)
    \/ \E e \in Elems, k \in Keys : NativeSetAttribute(e, k)
    \/ \E e \in Elems, k \in Keys : NativeRemoveAttribute(e, k)

SpecData == InitData /\ [][NextData]_vars

\* Data of a handle across destruction and re-insertion of its element: the
\* page stores in-memory entries, removes handles, lets the watcher run,
\* puts elements back and wraps them again.
InitRelease == InitData /\ attrs = [e \in Elems |-> {}]

NextRelease ==
    \/ InitCall
    \/ \E e \in Elems : Wrap(e)
    \/ \E h \in 1..Len(handles), k \in Keys, v \in Values : SetDataWith(h, k, v)
    \/ \E h \in 1..Len(handles), k \in Keys : GetData(h, k)
    \/ \E h \in 1..Len(handles), k \in Keys : HasData(h, k)
    \/ \E h \in 1..Len(handles) : Remove(h)
    \/ \E e \in Elems : NativeAppend(e, Body)
    \/ ObserverCallback
    \/ MicrotaskCheck
    \/ CheckStep
    \/ CheckEnd
    \/ DestroyEnd

SpecRelease == InitRelease /\ [][NextRelease]_vars

\* SpecArray: collections of handles and InDomArray.off.
\* the collections user code holds: handles in ascending order of id
Arrays == {SetToSeq(A) : A \in SUBSET (1..Len(handles))}
\* the fnArr arguments: left out, a single function (truthy, not an array),
\* and arrays of wrapped handlers up to the longest collection
FnArrs ==
    {[given |-> FALSE, isArray |-> FALSE, fns |-> <<>>],
     [given |-> TRUE, isArray |-> FALSE, fns |-> <<>>]}
    \cup {[given |-> TRUE, isArray |-> TRUE, fns |-> f] :
            f \in UNION {[1..n -> 1..Len(wrapped)] : n \in 0..MaxHandles}}

NextArray ==
    \/ InitCall
    \/ \E e \in Elems : Wrap(e)
    \/ \E h \in 1..Len(handles), t \in ListenerTypes : On(h, t)
    \/ \E h \in 1..Len(handles) : OnRemove(h)
    \/ \E arr \in Arrays, t \in TypeArgs \cup {"onRemove", NoType}, fnArr \in FnArrs :
          ArrayOff(arr, t, fnArr)

SpecArray == InitEvents /\ [][NextArray]_vars

\* ------------------------------------------------------------ claims
Live(h) == handles[h].el # Null
Destroyed(h) == h \in 1..Len(handles) /\ handles[h].el = Null
Hooks == {w \in 1..Len(wrapped) : wrapped[w].type = "onRemove"}
HoldsState(h) ==
    \/ handles[h].abortController # Null
    \/ ~handles[h].dataNull
    \/ \E t \in Types : handles[h].events[t] # {}

\* nothing is in progress and nothing is waiting: no call on the stack, no
\* undelivered mutation record, no queued microtask check
Quiescent == Idle /\ removed = <<>> /\ maybeGone = <<>>

\* C1: at any time at most one live handle exists per element, so every
\* way of obtaining a handle for e yields the identical object.
C1_OneLiveHandlePerElement ==
    \A h1, h2 \in 1..Len(handles) :
        Live(h1) /\ handles[h1].el = handles[h2].el => h1 = h2

\* C2: an onRemove hook that was registered and not unregistered is never
\* invoked twice, and once the call that destroyed its handle has returned
\* it has been invoked exactly once, whatever destroyed the handle.
C2_HookExactlyOnce ==
    \A w \in Hooks \ unregistered :
        /\ fired[w] <= 1
        /\ Idle /\ Destroyed(wrapped[w].owner) => fired[w] = 1

\* C3: no leak. Once the observer callback and the check it queued have
\* run (nothing is in progress or waiting), no live handle that holds
\* listeners, data or hooks has its element outside the document.
C3_NoLeak ==
    Quiescent =>
        \A h \in 1..Len(handles) :
            Live(h) /\ HoldsState(h) => isConnectedNode(parent, handles[h].el)

\* the check is about to test the handle n, which is live
Checking(n) ==
    /\ ~Idle
    /\ Top.kind = "check"
    /\ Top.h <= Len(Top.rest)
    /\ Top.rest[Top.h] = n
    /\ Live(n)

\* C4: transient-move suppression. When the deferred check reaches a handle
\* whose element is in the document again, it skips it: the handle is not
\* destroyed, no error is raised, no hook runs, and its listeners, data and
\* registry entry are unchanged.
C4_TransientMoveSkipped ==
    [][\A n \in 1..Len(handles) :
          Checking(n) /\ isConnectedNode(parent, handles[n].el) =>
              /\ handles' = handles
              /\ map' = map
              /\ native' = native
              /\ fired' = fired
              /\ parent' = parent
              /\ err' = "none"
              /\ Len(stack') = Len(stack)]_vars

\* a state in which the check has just skipped a handle with a listener
\* and a hook whose element had been removed and put back
C4_Witness ==
    /\ ~Idle
    /\ Top.kind = "check"
    /\ Top.h > 1
    /\ LET n == Top.rest[Top.h - 1]
       IN  /\ Live(n)
           /\ isConnectedNode(parent, handles[n].el)
           /\ handles[n].events["click"] # {}
           /\ handles[n].events["onRemove"] # {}
           /\ map[handles[n].el] = n
           /\ fired[Min(handles[n].events["onRemove"])] = 0

\* C5: subtree completeness. The handles that were registered inside a
\* subtree when it was taken out of the document, and that stayed detached,
\* are all destroyed once the deferred check has run.
C5_SubtreeCompleteness == Quiescent => gone = {}

\* C6: the second of any two remove() calls on a handle fails with
\* 'Element has been removed' and invokes no hook.
C6_SecondRemoveFails ==
    [][\A h \in 1..Len(handles) :
          h \in removeCalled /\ Remove(h) => err' = "removed" /\ fired' = fired]_vars

\* C7: no handler registered through on() of a handle that has been
\* destroyed is invoked by an event dispatched on the element.
C7_NoHandlerAfterDestroy == \A w \in dispatched : Live(wrapped[w].owner)

\* C8: each element the registry maps is mapped to a live handle of that
\* element.
C8_RegistryMapsLiveHandles ==
    \A e \in Elems : map[e] # Null => handles[map[e]].el = e

\* the outcome of a call that failed and changed nothing in S
Refused(R, S) == R.thrown # "none" /\ [R EXCEPT !.thrown = "none"] = S

\* C9: on a destroyed handle every public operation fails with an error and
\* changes nothing of the handle, the registry or the DOM.
C9_DestroyedHandleRefuses ==
    \A h \in 1..Len(handles) :
        Destroyed(h) =>
            /\ \A t \in EventTypes : Refused(on(Cur, h, t), Cur)
            /\ Refused(onRemove(Cur, h), Cur)
            /\ Refused(off(Cur, h), Cur)
            /\ \A k \in Keys : Refused(setData(Cur, h, k), Cur)
            /\ Refused(setHtml(Cur, h), Cur)
            /\ \A e \in Elems : Refused(append(Cur, h, e), Cur)
            /\ Refused(checkElement(Cur, h), Cur)
            /\ Refused(remove([Cur EXCEPT !.removeCalled = @ \cup {h}], h), Cur)

\* a call on a destroyed handle has just failed, the handle having had a
\* hook that ran
C9_Witness ==
    /\ Idle
    /\ err = "removed"
    /\ \E h \in 1..Len(handles) :
          /\ Destroyed(h)
          /\ \E w \in Hooks : wrapped[w].owner = h /\ fired[w] = 1

\* the subsequence of q made of the members of S
RECURSIVE Restrict(_, _)
Restrict(q, S) ==
    IF q = <<>> THEN <<>>
    ELSE (IF Head(q) \in S THEN <<Head(q)>> ELSE <<>>) \o Restrict(Tail(q), S)

\* C10: once init() has started the watcher and returned, the callbacks
\* queued before have each been invoked exactly once, in the order they
\* were queued.
C10_QueuedCallbacksInOrder ==
    ready /\ Idle => Restrict(calls, Range(queued)) = queued

\* how often c occurs in the sequence q
Count(q, c) == Cardinality({i \in 1..Len(q) : q[i] = c})

\* C11: onReady(fn) called with a function while #ready is true invokes fn
\* exactly once before it returns and does not queue it; called while
\* #ready is false it queues fn and does not invoke it; called with a
\* non-function it fails with a TypeError and leaves the queue and #ready
\* unchanged.
C11_OnReadyNowOrQueued ==
    [][/\ Idle /\ Len(callbacks') > Len(callbacks) =>
            LET c == Len(callbacks) + 1
            IN  IF ready
                THEN /\ Count(calls', c) = 1
                     /\ onReadyFns' = onReadyFns
                     /\ queued' = queued
                ELSE /\ onReadyFns' = Append(onReadyFns, c)
                     /\ Count(calls', c) = 0
                     /\ calls' = calls
       /\ Idle /\ err' = "type" =>
            /\ onReadyFns' = onReadyFns
            /\ ready' = ready
            /\ calls' = calls]_vars

\* one callback was queued before the watcher started, another was invoked
\* at once afterwards, and a non-function has just been refused
C11_Witness ==
    /\ Idle
    /\ ready
    /\ err = "type"
    /\ queued # <<>>
    /\ \E c \in Range(calls) : c \notin Range(queued)

\* C12: once init() has set #ready it stays true, and every later init()
\* call (by the page or by a DOMContentLoaded listener) is a no-op: no
\* second observer, no ready callback invoked, no flush started.
C12_StartedIsTerminal ==
    [][ready =>
          /\ ready'
          /\ observers' = observers
          /\ observers = 1
          /\ InitCall \/ DclStep =>
                /\ calls' = calls
                /\ onReadyFns' = onReadyFns
                /\ Len(stack') = Len(stack)]_vars

\* the last DOMContentLoaded listener has called init() after the watcher
\* had been started by the page: a callback passed to onReady by the page
\* was invoked at once before the listeners ran
C12_Witness ==
    /\ ~Idle
    /\ Top.kind = "dcl"
    /\ Top.h = 0
    /\ ready
    /\ observers = 1
    /\ \A c \in 1..Len(callbacks) : callbacks[c] # "onReady"
    /\ \E c \in Range(calls) : c \notin Range(queued)

\* C13: whenever the ready state is false or the handle's element is not
\* connected to the document, on() with any arguments fails with an error and
\* registers nothing: the native listeners, the listener map, the
\* cancellation tokens and the registry are what they were.
C13_OnRefusedUnlessReadyAndConnected ==
    \A h \in 1..Len(handles) :
        (~ready \/ ~isConnectedNode(parent, handles[h].el)) =>
            \A types \in TypeLists, a \in HandlerArgs :
                Refused(onWith(Cur, h, types, a[1], a[2]), Cur)

\* on() has just failed on a handle whose element is outside the document,
\* the library being ready, and the handle holds no listener and no token
C13_Witness ==
    /\ Idle
    /\ ready
    /\ err = "notConnected"
    /\ \E h \in 1..Len(handles) :
          /\ Live(h)
          /\ ~isConnectedNode(parent, handles[h].el)
          /\ handles[h].eventsNull
          /\ handles[h].abortController = Null
          /\ \A l \in native : l.el # handles[h].el

\* C14: whenever the ready state is false or the handle's element is not
\* connected to the document, each of hasData, getData, setData and
\* removeData fails with an error.
C14_DataOpsRefuseUnlessReadyAndConnected ==
    \A h \in 1..Len(handles), k \in Keys :
        (~ready \/ ~isConnectedNode(parent, handles[h].el)) =>
            /\ hasData(Cur, h, k).S.thrown # "none"
            /\ getData(Cur, h, k).S.thrown # "none"
            /\ \A v \in Values : setDataWith(Cur, h, k, v).thrown # "none"
            /\ removeData(Cur, h, k).thrown # "none"

\* the in-memory entries of handle h
Store(S, h) == IF S.handles[h].dataNull THEN {} ELSE S.handles[h].data

\* C15: on a connected handle, the library being ready, for every key k:
\* when the element has a data-k attribute, getData returns the attribute's
\* text, setData writes the value's text to the attribute and removeData
\* removes the attribute, each leaving every handle's in-memory store as it
\* was; when the element has no data-k attribute, they return, write and
\* remove the in-memory entry for k and leave the attributes as they were.
C15_AttributePreferred ==
    \A h \in 1..Len(handles), k \in Keys :
        LET e == handles[h].el
            G == getData(Cur, h, k)
            D == removeData(Cur, h, k)
        IN  (ready /\ isConnectedNode(parent, e)) =>
              IF \E t \in {"0", "1"} : <<k, t>> \in attrs[e]
              THEN /\ G.S = Cur
                   /\ G.value.type = "string"
                   /\ <<k, G.value.text>> \in attrs[e]
                   /\ \A v \in Values :
                         LET W == setDataWith(Cur, h, k, v)
                         IN  /\ W.thrown = "none"
                             /\ W.handles = handles /\ W.map = map
                             /\ W.attrs = [attrs EXCEPT ![e] =
                                   {a \in @ : a[1] # k} \cup {<<k, v.text>>}]
                   /\ D.thrown = "none"
                   /\ D.handles = handles /\ D.map = map
                   /\ D.attrs = [attrs EXCEPT ![e] = {a \in @ : a[1] # k}]
              ELSE /\ G.S.thrown = "none"
                   /\ G.S.attrs = attrs
                   /\ Store(G.S, h) = Store(Cur, h)
                   /\ IF \E p \in Store(Cur, h) : p[1] = k
                      THEN <<k, G.value>> \in Store(Cur, h)
                      ELSE G.value = Undefined
                   /\ \A v \in Values :
                         LET W == setDataWith(Cur, h, k, v)
                         IN  /\ W.thrown = "none"
                             /\ W.attrs = attrs
                             /\ Store(W, h) = {p \in Store(Cur, h) : p[1] # k}
                                                 \cup {<<k, v>>}
                   /\ D.thrown = "none"
                   /\ D.attrs = attrs
                   /\ Store(D, h) = {p \in Store(Cur, h) : p[1] # k}

\* setData has written the data-k attribute of a connected handle's element
\* (the page writes another text), and the handle has no in-memory store
C15_Witness ==
    /\ Idle
    /\ ready
    /\ err = "none"
    /\ \E h \in 1..Len(handles), k \in Keys :
          /\ Live(h)
          /\ isConnectedNode(parent, handles[h].el)
          /\ <<k, "1">> \in attrs[handles[h].el]
          /\ handles[h].dataNull

\* C16: off(t, w), with w a wrapped handler on() returned and registered for
\* type t, removes exactly the registration of w for t: no event of type t
\* reaches w any more, every other native listener is still there, and the
\* listener map loses the pair (t, w) and nothing else.
C16_OffHandlerRemovesExactlyOne ==
    \A h \in 1..Len(handles), t \in ListenerTypes :
        \A w \in handles[h].events[t] :
            LET R == offFn(Cur, h, t, w)
            IN  Live(h) =>
                  /\ R.thrown = "none"
                  /\ ~\E l \in R.native : l.w = w /\ l.type = t
                  /\ \A l \in native : (l.w # w \/ l.type # t) => l \in R.native
                  /\ R.handles[h].events =
                        [handles[h].events EXCEPT ![t] = @ \ {w}]

\* C17: off() with no arguments on a live handle leaves it without
\* listeners and without hooks: no native listener of one of its handlers
\* remains, its listener map is empty for every type and for onRemove; the
\* handle keeps its element, its data and the registry as they were.
C17_OffAllLeavesNothing ==
    \A h \in 1..Len(handles) :
        LET R == off(Cur, h)
        IN  Live(h) =>
              /\ R.thrown = "none"
              /\ ~\E l \in R.native : wrapped[l.w].owner = h
              /\ \A t \in Types : R.handles[h].events[t] = {}
              /\ R.handles[h].el = handles[h].el
              /\ R.handles[h].data = handles[h].data
              /\ R.handles[h].dataNull = handles[h].dataNull
              /\ R.map = map

\* the destruction in progress was started by an explicit remove(), not by
\* the watcher's deferred check
ExplicitRemove ==
    /\ ~Idle
    /\ Top.kind = "destroy"
    /\ \A i \in 1..Len(stack) : stack[i].kind # "check"

\* C18: when #destroy is about to invoke an onRemove hook of a handle,
\* the handle's token, data and listener map have been cleaned up, and if
\* the destruction comes from an explicit remove() the element is still
\* attached to its parent.
C18_HookRunsBeforeElementRemoved ==
    (ExplicitRemove /\ Top.rest # <<>>) =>
        /\ handles[Top.h].abortController = Null
        /\ handles[Top.h].dataNull
        /\ handles[Top.h].eventsNull
        /\ parent[handles[Top.h].el] # Null

\* C19: whenever #destroy is about to invoke an onRemove hook of handle h,
\* the registry has no entry for h's element and h's element reference is
\* not null (el() succeeds in the hook); before the first hook the token,
\* the data store and the listener map of h are cleared as well.
C19_DestroyStepsOrdered ==
    (~Idle /\ Top.kind = "destroy" /\ Top.rest # <<>>) =>
        LET h == Top.h
        IN  /\ handles[h].el # Null
            /\ \A e \in Elems : map[e] # h
            /\ (\A w \in Hooks : wrapped[w].owner = h => fired[w] = 0) =>
                  /\ handles[h].abortController = Null
                  /\ handles[h].dataNull
                  /\ handles[h].eventsNull

C21_ArrayOffLengthMismatch ==
    \A arr \in Arrays, t \in TypeArgs \cup {"onRemove", NoType}, fnArr \in FnArrs :
        (fnArr.isArray /\ Len(fnArr.fns) # Len(arr)) =>
            /\ arrayOff(Cur, arr, t, fnArr).thrown = "range"
            /\ Refused(arrayOff(Cur, arr, t, fnArr), Cur)

\* off() on a collection has just failed with the range error while two
\* handles hold listeners, which are all still registered
C21_Witness ==
    /\ Idle
    /\ err = "range"
    /\ Len(handles) = 2
    /\ \A h \in 1..Len(handles) :
          \E l \in native : wrapped[l.w].owner = h /\ l.w \in handles[h].events[l.type]

C23_LiveHandleRegistered ==
    \A h \in 1..Len(handles) :
        (Live(h) /\ \A i \in 1..Len(stack) : stack[i].h # h \/ stack[i].kind # "destroy")
            => map[handles[h].el] = h

\* C24: a destroyed handle has no cancellation token, no data store and no
\* listener map, and no native listener carries a revoked token.
C24_DestroyedHandleIsClean ==
    /\ \A h \in 1..Len(handles) :
          Destroyed(h) =>
              /\ handles[h].abortController = Null
              /\ handles[h].dataNull
              /\ handles[h].eventsNull
    /\ \A l \in native : l.signal \notin aborted

\* C25: for every live handle and every event type, the wrapped handlers in
\* the handle's listener map are exactly those registered natively on its
\* element through the handle.
C25_ListenerMapInSync ==
    \A h \in 1..Len(handles), t \in ListenerTypes :
        Live(h) =>
            handles[h].events[t] =
                {l.w : l \in {x \in native : /\ x.el = handles[h].el
                                             /\ x.type = t
                                             /\ wrapped[x.w].owner = h}}

\* C26: the observer callback puts into the batch only handles whose
\* element is a removed node or inside the subtree of one, and the deferred
\* check starts the destruction of a handle only when its element is not
\* connected to the document at that time.
C26_NoSpuriousDestruction ==
    [][/\ (maybeGone = <<>> /\ maybeGone' # <<>>) =>
              \A i \in 1..Len(maybeGone') :
                  \E j \in 1..Len(removed) :
                      contains(parent, removed[j], handles[maybeGone'[i]].el)
       /\ (/\ stack # <<>> /\ Top.kind = "check"
           /\ Len(stack') = Len(stack) + 1
           /\ stack'[Len(stack')].kind = "destroy") =>
              ~isConnectedNode(parent, handles[stack'[Len(stack')].h].el)]_vars

\* the deferred check is destroying a handle whose element is outside the
\* document while another registered handle, whose element is in the
\* document, is live
C26_Witness ==
    /\ Len(stack) = 2
    /\ stack[1].kind = "check"
    /\ stack[2].kind = "destroy"
    /\ \E h \in 1..Len(handles) :
          /\ h # stack[2].h
          /\ Live(h)
          /\ map[handles[h].el] = h
          /\ isConnectedNode(parent, handles[h].el)

\* C27: the hooks of a handle are snapshotted when its destruction starts
\* and invoked from the snapshot in registration order: a hook that was
\* registered (and not unregistered) when the destruction started has been
\* invoked or is still waiting in the loop of #destroy, no hook is invoked
\* before one registered earlier on the same handle, and the hooks waiting
\* in a loop belong to its handle, in registration order.
C27_HooksInRegistrationOrder ==
    /\ \A w \in Hooks \ unregistered :
          LET h == wrapped[w].owner
          IN  w \notin handles[h].events["onRemove"] =>
                \/ fired[w] >= 1
                \/ \E i \in 1..Len(stack) :
                      /\ stack[i].kind = "destroy" /\ stack[i].h = h
                      /\ w \in Range(stack[i].rest)
    /\ \A w1, w2 \in Hooks \ unregistered :
          (wrapped[w1].owner = wrapped[w2].owner /\ w1 < w2 /\ fired[w2] >= 1)
              => fired[w1] >= 1
    /\ \A i \in 1..Len(stack) :
          stack[i].kind = "destroy" =>
              /\ \A j \in 1..Len(stack[i].rest) :
                    wrapped[stack[i].rest[j]].owner = stack[i].h
              /\ \A j, k \in 1..Len(stack[i].rest) :
                    j < k => stack[i].rest[j] < stack[i].rest[k]

\* the forEach loops over #onReadyFns in progress
FlushFrames(st) == {i \in 1..Len(st) : st[i].kind = "flush"}

\* C28: an init() call made while document.body does not exist leaves the
\* ready state false, installs no observer and keeps the queue; once
\* DOMContentLoaded has been handled the watcher is started; there is never
\* more than one observer, it is there exactly when the ready state is
\* true, and a flush is started only by the step that sets the ready state,
\* over the whole queue, so no queued callback is invoked twice.
C28_DeferredStart ==
    /\ [](/\ observers = (IF ready THEN 1 ELSE 0)
          /\ (domLoaded /\ Idle) => ready
          /\ \A c \in Range(queued) : Count(calls, c) <= 1)
    /\ [][/\ (~bodyExists /\ InitCall) =>
                /\ ~ready' /\ observers' = 0
                /\ onReadyFns' = onReadyFns /\ calls' = calls
                /\ stack' = stack
          /\ Cardinality(FlushFrames(stack')) > Cardinality(FlushFrames(stack)) =>
                /\ ~ready /\ ready' /\ bodyExists
                /\ stack'[Len(stack')] = frame("flush", Null, onReadyFns)
                /\ Cardinality(FlushFrames(stack')) = 1]_vars

\* init() was called again before document.body existed, so that two
\* DOMContentLoaded listeners were registered; the first has started the
\* watcher and the flush has invoked a queued callback, the second is
\* still to run
C28_Witness ==
    /\ stack # <<>>
    /\ stack[1].kind = "dcl"
    /\ stack[1].h = 1
    /\ ready
    /\ observers = 1
    /\ err = "none"
    /\ \E c \in Range(queued) : Count(calls, c) = 1

\* C29: a function passed to onReady by a callback the flush is invoking is
\* invoked at once, right after that callback has started and before the
\* callbacks still waiting in the flush; it is not appended to the queue,
\* and a function that was never queued is never invoked twice.
C29_OnReadyDuringFlush ==
    /\ [](\A c \in 1..Len(callbacks) :
              c \notin Range(queued) =>
                  Count(calls, c) <= 1 /\ c \notin Range(onReadyFns))
    /\ [][(stack # <<>> /\ Top.kind = "flush"
                       /\ Len(callbacks') > Len(callbacks)) =>
              LET n == Len(callbacks) + 1
              IN  /\ ready
                  /\ calls' = calls \o <<Head(Top.rest), n>>
                  /\ onReadyFns' = onReadyFns
                  /\ queued' = queued
                  /\ \A i \in 2..Len(Top.rest) : Count(calls', Top.rest[i]) = 0]_vars

\* during a flush with a callback still waiting, a function that was never
\* queued has been invoked
C29_Witness ==
    /\ stack # <<>>
    /\ Top.kind = "flush"
    /\ Top.rest # <<>>
    /\ \E n \in Range(calls) : n \notin Range(queued)

\* C30: whenever the ready state is true and no flush is in progress, the
\* ready queue is empty and every callback that was ever queued has been
\* invoked exactly once.
C30_QueueConsumedOnce ==
    (ready /\ FlushFrames(stack) = {}) =>
        /\ onReadyFns = <<>>
        /\ \A c \in Range(queued) : Count(calls, c) = 1

\* C31: the in-memory data of a handle is released at its destruction and is
\* never observable afterwards: a destroyed handle holds no store and refuses
\* hasData and getData, and a fresh handle for the same element reports
\* hasData(k) false and getData(k) no value for every key k that only the
\* destroyed handle had stored in memory.
C31_DataReleasedAtDestruction ==
    /\ \A h \in 1..Len(handles) :
          (handles[h].el = Null \/ map[handles[h].el] # h) =>
              /\ handles[h].dataNull
              /\ handles[h].data = {}
    /\ \A h \in 1..Len(handles), k \in Keys :
          Destroyed(h) =>
              /\ hasData(Cur, h, k).S.thrown # "none"
              /\ getData(Cur, h, k).S.thrown # "none"
    /\ \A s \in stored, h2 \in 1..Len(handles) :
          LET h1 == s[1]
              e  == s[2]
              k  == s[3]
          IN  (/\ Destroyed(h1)
               /\ handles[h2].el = e
               /\ <<h2, e, k>> \notin stored
               /\ ~hasAttribute(Cur, e, k)) =>
                  /\ hasData(Cur, h2, k).value = FALSE
                  /\ hasData(Cur, h2, k).S.thrown = "none"
                  /\ getData(Cur, h2, k).value = Undefined
                  /\ (ready /\ isConnectedNode(parent, e)) =>
                         getData(Cur, h2, k).S.thrown = "none"

\* a handle that stored k in memory was destroyed, its element is back in
\* the document and a fresh registered handle for it has stored nothing
C31_Witness ==
    \E s \in stored, h2 \in 1..Len(handles) :
        /\ Destroyed(s[1])
        /\ handles[h2].el = s[2]
        /\ map[s[2]] = h2
        /\ <<h2, s[2], s[3]>> \notin stored
        /\ ready
        /\ isConnectedNode(parent, s[2])
        /\ Idle
        /\ err = "none"

\* C32: an on() call that fails argument validation (an empty entry anywhere
\* in the type list, a handler that is not a function, or options that are
\* not a plain object) throws a type error and leaves everything unchanged:
\* no native listener, no listener-map entry, no cancellation token and no
\* registry entry is added.
C32_InvalidOnChangesNothing ==
    \A h \in 1..Len(handles) :
        (Live(h) /\ ready /\ isConnectedNode(parent, handles[h].el)) =>
            \A types \in UNION {[1..n -> TypeArgs] : n \in 1..MaxTypes},
               a \in HandlerArgs :
                (\/ \E i \in 1..Len(types) : types[i] = ""
                 \/ a[1] = "notFunction"
                 \/ a[1] = "fn" /\ ~a[2].isObject) =>
                    LET R == onWith(Cur, h, types, a[1], a[2])
                    IN  /\ R.thrown = "type"
                        /\ Refused(R, Cur)
                        /\ R.native = native
                        /\ R.handles = handles
                        /\ R.nTok = nTok
                        /\ R.map = map

\* on() has just failed with a type error on a connected handle, the library
\* being ready, and the handle holds no token, no listener map and no
\* native listener
C32_Witness ==
    /\ Idle
    /\ ready
    /\ err = "type"
    /\ \E h \in 1..Len(handles) :
          /\ Live(h)
          /\ map[handles[h].el] = h
          /\ isConnectedNode(parent, handles[h].el)
          /\ handles[h].eventsNull
          /\ handles[h].abortController = Null
          /\ \A l \in native : l.el # handles[h].el

\* C33: when an onRemove hook throws during a handle's destruction, the
\* exception leaves every destruction in progress (it propagates to the
\* caller or out of the microtask) and no later hook of the handle is
\* invoked; the handle is left deregistered and cleaned (no token, no data
\* store, no listener map) with its element reference still set, and a
\* later remove() on it succeeds and finds no hook to invoke.
C33_ThrowingHookLeavesCleanHandle ==
    [][(~Idle /\ Top.kind = "destroy" /\ Top.rest # <<>> /\ err' = "hook") =>
          /\ stack' = unwind(stack)
          /\ \A i \in 1..Len(stack) : stack[i].kind = "destroy" =>
                LET h == stack[i].h
                IN  /\ \A j \in 1..Len(stack[i].rest) :
                          (i < Len(stack) \/ j > 1) =>
                              fired'[stack[i].rest[j]] = fired[stack[i].rest[j]]
                    /\ handles'[h].el # Null
                    /\ \A e \in Elems : map'[e] # h
                    /\ handles'[h].abortController = Null
                    /\ handles'[h].dataNull
                    /\ handles'[h].eventsNull
                    /\ remove(Cur', h).thrown = "none"
                    /\ remove(Cur', h).stack =
                           Append(stack', frame("destroy", h, <<>>))]_vars

\* C34: after removeData(k) has returned on a connected live handle, the
\* library being ready, hasData(k) is false and getData(k) finds no value,
\* whether k was held by a data-k attribute, by the in-memory store, by
\* both or by neither.
C34_RemoveDataRemovesKey ==
    \A h \in 1..Len(handles), k \in Keys :
        (Live(h) /\ ready /\ isConnectedNode(parent, handles[h].el)) =>
            LET D == removeData(Cur, h, k)
            IN  /\ D.thrown = "none"
                /\ hasData(D, h, k).value = FALSE
                /\ getData(D, h, k).value = Undefined

\* C35: the deferred check destroys a disconnected handle by calling
\* remove() on it: the step detaches the handle's element from its parent,
\* also when the element is a descendant inside a removed subtree, and
\* starts the handle's destruction, while every other element, in
\* particular a descendant without a registered handle, keeps its parent.
C35_CheckDetachesHandledDescendant ==
    [][(/\ stack # <<>>
        /\ Top.kind = "check"
        /\ Top.h <= Len(Top.rest)
        /\ handles[Top.rest[Top.h]].el # Null
        /\ ~isConnectedNode(parent, handles[Top.rest[Top.h]].el)) =>
          LET n == Top.rest[Top.h]
              e == handles[n].el
          IN  /\ n \in removeCalled'
              /\ parent'[e] = Null
              /\ \A x \in Elems \ {e} : parent'[x] = parent[x]
              /\ Len(stack') = Len(stack) + 1
              /\ stack'[Len(stack')].kind = "destroy"
              /\ stack'[Len(stack')].h = n
              /\ \A x \in Elems : map'[x] # n]_vars

\* during the check a handle is being destroyed whose element has been
\* detached, while an element without any handle is still in place under
\* another detached element
C35_Witness ==
    /\ Len(stack) = 2
    /\ stack[1].kind = "check"
    /\ stack[2].kind = "destroy"
    /\ stack[2].h \in removeCalled
    /\ LET e == handles[stack[2].h].el
       IN  /\ e # Null
           /\ parent[e] = Null
           /\ \E r \in Elems \ {e}, x \in Elems \ {e} :
                 /\ parent[r] = Null
                 /\ parent[x] = r
                 /\ \A h \in 1..Len(handles) : handles[h].el # x
====
